---- MODULE Spec2Model ----
(***************************************************************************)
(* Model of mbta.py: the slot-filling dialog of the MBTA skill.            *)
(*                                                                         *)
(* The state is the flask_ask session of one conversation                  *)
(* (session.attributes) together with a record of the last request: which  *)
(* intent was handled, the (slot, value) pair handed to                    *)
(* set_context_and_handle, what that call returned or raised, which        *)
(* handlers of the dialog it invoked and which steps it scanned, and the   *)
(* response rendered for the platform.                                     *)
(*                                                                         *)
(* Spec         one conversation, any requests in any order                *)
(* SpecIso      several conversations, their requests interleaved          *)
(* SpecAnswer   a user who answers every question with the slot asked for  *)
(* SpecRace     two calls on one session whose steps interleave            *)
(***************************************************************************)
EXTENDS Naturals, Sequences, FiniteSets, TLC

VARIABLES attributes,   \* session.attributes: slot name -> value
          intent,       \* the request handled last ("init" before any)
          slot,         \* first argument of the last set_context_and_handle call
          value,        \* second argument of that call
          result,       \* (msg_type, msg) that call returned
          raised,       \* the exception that call raised, "none" if it returned
          invoked,      \* dialog handlers invoked by that call, in order
          evaluated,    \* indices of the dialog steps that call scanned
          response,     \* the flask_ask response rendered for the last request
          scen,         \* number of engine calls so far, while they follow Scenario
          repeated,     \* the last two requests were engine calls with equal arguments
          dlg,          \* the module-level list `dialog`, as built at import
          overwrote,    \* the last call replaced a stored value by a different one
          fills,        \* slots filled so far, while every call fills a new slot (see FillsNext)
          sessions,     \* several conversations: conversation -> its session attributes
          current,      \* several conversations: the one the last request belonged to
          answers,      \* answering user: number of calls that supplied the slot asked for
          answered,     \* answering user: the slots so supplied
          calls         \* overlapping calls: caller -> the call it has in progress

vars == <<attributes, intent, slot, value, result, raised, invoked, evaluated,
          response, scen, repeated, dlg, overwrote, fills, sessions, current,
          answers, answered, calls>>

\* What the requests of a single conversation leave alone.
others == <<sessions, current, answers, answered, calls>>

----------------------------------------------------------------------------
(* Python values.  Slot names and values are strings or None; None is a    *)
(* value distinct from every string the model draws.                       *)

None == "<None>"

\* bool(v) for v a string or None: None and "" are falsy.
Truthy(v) == v # None /\ v # ""

\* "%s" % v
Str(v) == IF v = None THEN "None" ELSE v

\* Number of distinct non-empty values the platform may deliver for a slot.
MaxValues == 2

StationPool == <<"Park St", "Alewife", "Kendall">>
LinePool == <<"Red", "Green", "Orange">>
DirectionPool == <<"Inbound", "Outbound", "Northbound">>
OtherPool == <<"yes", "no", "maybe">>

\* What a request may carry for a slot: nothing (None), the empty string, or
\* one of the first MaxValues values of the slot's pool.
ValuesOf(pool) ==
    {None, ""} \cup {pool[i] : i \in {j \in 1..Len(pool) : j <= MaxValues}}

\* Slot names that only a direct caller of set_context_and_handle passes:
\* the empty name and a name no step declares.
SlotArgs == {"", "Other"}

EmptyAttributes == [k \in {} |-> None]

\* The callers whose calls on one session overlap, and a caller with no
\* call in progress.
Callers == {1, 2}

IdleCall ==
    [pc |-> "idle", slot |-> None, value |-> None, k |-> 0, wrote |-> FALSE,
     r |-> 0, read |-> EmptyAttributes,
     mode |-> None, text |-> None, exc |-> "none", invoked |-> <<>>]

\* Number of conversations whose requests interleave.
MaxConversations == 2

Conversations == 1..MaxConversations

----------------------------------------------------------------------------
(* The dialog definition.                                                  *)

schedule_slots ==
    << [slot_name |-> "Station",   prompt |-> "What station?"],
       [slot_name |-> "Line",      prompt |-> "What line?"],
       [slot_name |-> "Direction", prompt |-> "Inbound or outbound?"] >>

dialog_send_text_first ==
    << [intent |-> "send_text", slots |-> <<>>,
        slots_is_none |-> TRUE, transition_msg |-> None],
       [intent |-> "get_next_train", slots |-> schedule_slots,
        slots_is_none |-> FALSE, transition_msg |-> "Should I text you?"] >>

\* "slots": None of the second step is slots_is_none = TRUE (its slots
\* field is then never read).
dialog ==
    << [intent |-> "get_next_train", slots |-> schedule_slots,
        slots_is_none |-> FALSE, transition_msg |-> "Should I text you?"],
       [intent |-> "send_text", slots |-> <<>>,
        slots_is_none |-> TRUE, transition_msg |-> None] >>

----------------------------------------------------------------------------
(* The handlers.  Each yields [exc, ret]: the exception raised ("none" if  *)
(* it returned) and the value returned.                                    *)

time == 5

get_next_train_swapped(attrs) ==
    IF ~({"Direction", "Line", "Station"} \subseteq DOMAIN attrs)
    THEN [exc |-> "KeyError", ret |-> None]
    ELSE [exc |-> "none",
          ret |-> "The next " \o Str(attrs["Line"]) \o " "
                  \o Str(attrs["Direction"]) \o " train from "
                  \o Str(attrs["Station"]) \o " leaves in "
                  \o ToString(time) \o " minutes."]

get_next_train(attrs) ==
    IF "Direction" \notin DOMAIN attrs THEN [exc |-> "KeyError", ret |-> None]
    ELSE IF "Line" \notin DOMAIN attrs THEN [exc |-> "KeyError", ret |-> None]
    ELSE IF "Station" \notin DOMAIN attrs THEN [exc |-> "KeyError", ret |-> None]
    ELSE [exc |-> "none",
          ret |-> "The next " \o Str(attrs["Direction"]) \o " "
                  \o Str(attrs["Line"]) \o " train from "
                  \o Str(attrs["Station"]) \o " leaves in "
                  \o ToString(time) \o " minutes."]

send_text(attrs) == [exc |-> "none", ret |-> None]

\* seq["intent"]()
CallIntent(name, attrs) ==
    IF name = "get_next_train" THEN get_next_train(attrs) ELSE send_text(attrs)

----------------------------------------------------------------------------
(* set_context_and_handle                                                  *)

\* session.attributes[s] = v
SetItemAppend(attrs, s, v) ==
    [k \in DOMAIN attrs \cup {s} |->
        IF k = s THEN (IF s \in DOMAIN attrs THEN attrs[s] \o v ELSE v)
        ELSE attrs[k]]

SetItemReplaceAll(attrs, s, v) == [k \in {s} |-> v]

SetItemKeepFirst(attrs, s, v) ==
    [k \in DOMAIN attrs \cup {s} |-> IF k \in DOMAIN attrs THEN attrs[k] ELSE v]

SetItem(attrs, s, v) ==
    [k \in DOMAIN attrs \cup {s} |-> IF k = s THEN v ELSE attrs[k]]

\* if slot and value: session.attributes[slot] = value
WriteIfSlot(attrs, s, v) ==
    IF Truthy(s) THEN SetItem(attrs, s, v) ELSE attrs

WriteDeclaredOnly(attrs, s, v) ==
    IF /\ Truthy(s) /\ Truthy(v)
       /\ \E i \in 1..Len(schedule_slots) : schedule_slots[i].slot_name = s
    THEN SetItem(attrs, s, v)
    ELSE attrs

WriteOnlyPrompted(attrs, s, v) ==
    IF /\ Truthy(s) /\ Truthy(v)
       /\ \E i \in 1..Len(schedule_slots) :
             /\ schedule_slots[i].slot_name = s
             /\ \A j \in 1..(i - 1) : schedule_slots[j].slot_name \in DOMAIN attrs
    THEN SetItem(attrs, s, v)
    ELSE attrs

WriteSlot(attrs, s, v) ==
    IF Truthy(s) /\ Truthy(v) THEN SetItem(attrs, s, v) ELSE attrs

\* for s in intent_slots: the index of the first slot, from the i-th on,
\* whose name is not in session.attributes; 0 when there is none.
RECURSIVE FirstMissingFrom(_, _, _)
FirstMissingFrom(slots, i, attrs) ==
    IF i > Len(slots) THEN 0
    ELSE IF slots[i].slot_name \notin DOMAIN attrs THEN i
    ELSE FirstMissingFrom(slots, i + 1, attrs)

FirstMissingSkipLast(slots, attrs) ==
    LET m == FirstMissingFrom(slots, 1, attrs)
    IN  IF m = Len(slots) THEN 0 ELSE m

RECURSIVE LastMissingFrom(_, _, _)
LastMissingFrom(slots, i, attrs) ==
    IF i = 0 THEN 0
    ELSE IF slots[i].slot_name \notin DOMAIN attrs THEN i
    ELSE LastMissingFrom(slots, i - 1, attrs)

FirstMissingReversed(slots, attrs) == LastMissingFrom(slots, Len(slots), attrs)

FirstMissing(slots, attrs) == FirstMissingFrom(slots, 1, attrs)

\* What a call yields: the pair returned, the exception raised, the
\* handlers invoked and the steps scanned.
Outcome(mode, text, exc, inv, ev) ==
    [mode |-> mode, text |-> text, exc |-> exc, invoked |-> inv, evaluated |-> ev]

StepBodyNoTransition(n, attrs) ==
    LET seq == dlg[n]
        m   == FirstMissing(seq.slots, attrs)
        h   == CallIntent(seq.intent, attrs)
    IN  IF seq.slots_is_none THEN Outcome(None, None, "TypeError", <<>>, <<n>>)
        ELSE IF m # 0 THEN Outcome("question", seq.slots[m].prompt, "none", <<>>, <<n>>)
        ELSE IF h.exc # "none" THEN Outcome(None, None, h.exc, <<seq.intent>>, <<n>>)
        ELSE Outcome("statement", h.ret, "none", <<seq.intent>>, <<n>>)

\* "all slots are filled at this point, so we can handle the intent":
\* the handler of dlg[n] is called and its text returned.
RunIntent(n, attrs) ==
    LET seq == dlg[n]
        h   == CallIntent(seq.intent, attrs)
    IN  IF h.exc # "none"
        THEN Outcome(None, None, h.exc, <<seq.intent>>, <<n>>)
        ELSE IF Truthy(seq.transition_msg)
        THEN IF h.ret = None
             THEN \* None + "..."
                  Outcome(None, None, "TypeError", <<seq.intent>>, <<n>>)
             ELSE Outcome("question", h.ret \o "..." \o seq.transition_msg,
                          "none", <<seq.intent>>, <<n>>)
        ELSE Outcome("statement", h.ret, "none", <<seq.intent>>, <<n>>)

\* The body of `for seq in dialog` for the n-th step.  Every path of it
\* returns or raises.
StepBody(n, attrs) ==
    LET seq == dlg[n]
        m   == FirstMissing(seq.slots, attrs)
    IN  IF seq.slots_is_none
        THEN \* for s in None
             Outcome(None, None, "TypeError", <<>>, <<n>>)
        ELSE IF m # 0
        THEN Outcome("question", seq.slots[m].prompt, "none", <<>>, <<n>>)
        ELSE RunIntent(n, attrs)

\* A scan that goes on to the next step once a step's handler has run.
RECURSIVE CascadeFrom(_, _)
CascadeFrom(n, attrs) ==
    IF n > Len(dlg) THEN Outcome(None, None, "none", <<>>, <<>>)
    ELSE LET o == StepBody(n, attrs)
         IN  IF o.exc = "none" /\ o.invoked # <<>> /\ n < Len(dlg)
             THEN LET rest == CascadeFrom(n + 1, attrs)
                  IN  Outcome(rest.mode, rest.text, rest.exc,
                              o.invoked \o rest.invoked, o.evaluated \o rest.evaluated)
             ELSE o

HandleCascade(attrs) == CascadeFrom(1, attrs)

\* for seq in dialog: ...  The first iteration always leaves the function,
\* so only the first step is ever scanned; an empty dialog falls off the loop
\* and the function returns None.
Handle(attrs) ==
    IF Len(dlg) = 0 THEN Outcome(None, None, "none", <<>>, <<>>)
    ELSE StepBody(1, attrs)

----------------------------------------------------------------------------
(* Responses.                                                              *)

question(msg) == [kind |-> "question", speech |-> msg]
statement(msg) == [kind |-> "statement", speech |-> msg]
NoResponse == [kind |-> None, speech |-> None]
NoResult == [mode |-> None, text |-> None]

\* msg_type, msg = set_context_and_handle(...)
\* if msg_type == "question": return question(msg) else: return statement(msg)
\* There is no response when the call raised, nor when it returned None
\* (the unpacking then raises TypeError).
Render(o) ==
    IF o.exc # "none" \/ o.mode = None THEN NoResponse
    ELSE IF o.mode = "question" THEN question(o.text)
    ELSE statement(o.text)

----------------------------------------------------------------------------
(* Observation of the calls made to the engine: how far they have followed *)
(* the end-to-end scenario (five calls on a new session).  It records the  *)
(* calls and takes no part in what they do.                                *)

Scenario ==
    << [slot |-> None,        value |-> None],
       [slot |-> "Station",   value |-> "Park St"],
       [slot |-> "Line",      value |-> "Red"],
       [slot |-> "Direction", value |-> "Inbound"],
       [slot |-> None,        value |-> None] >>

OffScenario == Len(Scenario) + 1

ScenNext(k, s, v) ==
    IF k < Len(Scenario) /\ Scenario[k + 1] = [slot |-> s, value |-> v]
    THEN k + 1
    ELSE OffScenario

\* Likewise: the slots filled so far, as long as every call since the
\* session began has filled one more declared slot with its value of
\* FixedFill; Unordered once a call did anything else.
FixedFill ==
    [k \in {"Station", "Line", "Direction"} |->
        IF k = "Station" THEN "Park St" ELSE IF k = "Line" THEN "Red" ELSE "Inbound"]

Unordered == <<"-">>

FillsNext(f, s, v) ==
    IF /\ f # Unordered
       /\ s \in DOMAIN FixedFill
       /\ s \notin {f[i] : i \in 1..Len(f)}
    THEN IF v = FixedFill[s] THEN Append(f, s) ELSE Unordered
    ELSE Unordered

----------------------------------------------------------------------------
(* Requests.                                                               *)

\* The last request reached the engine.
EngineCall ==
    intent \in {"NextTrainIntent", "SetStationIntent", "SetLineIntent",
                "SetDirectionIntent", "set_context_and_handle"}

\* A session holding attrs, before any request is recorded, with the
\* module-level dialog being d.
Started(d, attrs) ==
    /\ attributes = attrs
    /\ intent = "init"
    /\ slot = None
    /\ value = None
    /\ result = NoResult
    /\ raised = "none"
    /\ invoked = <<>>
    /\ evaluated = <<>>
    /\ response = NoResponse
    /\ scen = 0
    /\ repeated = FALSE
    /\ dlg = d
    /\ overwrote = FALSE
    /\ fills = <<>>
    /\ sessions = [c \in Conversations |-> EmptyAttributes]
    /\ current = 0
    /\ answers = 0
    /\ answered = {}
    /\ calls = [i \in Callers |-> IdleCall]

\* A new session.
Startup(d) == Started(d, EmptyAttributes)

Init == Startup(dialog)

\* One call set_context_and_handle(s, v) made on behalf of request `name`;
\* rendered tells whether the caller renders the pair into a response.
set_context_and_handle(name, s, v, rendered) ==
    LET attrs1 == WriteSlot(attributes, s, v)
        o      == Handle(attrs1)
    IN  /\ attributes' = attrs1
        /\ intent' = name
        /\ slot' = s
        /\ value' = v
        /\ result' = [mode |-> o.mode, text |-> o.text]
        /\ raised' = o.exc
        /\ invoked' = o.invoked
        /\ evaluated' = o.evaluated
        /\ response' = IF rendered THEN Render(o) ELSE NoResponse
        /\ scen' = ScenNext(scen, s, v)
        /\ repeated' = (EngineCall /\ slot = s /\ value = v)
        /\ overwrote' = (s \in DOMAIN attributes /\ s \in DOMAIN attrs1
                          /\ attrs1[s] # attributes[s])
        /\ fills' = FillsNext(fills, s, v)
        /\ dlg' = dlg

\* A request that does not reach the engine.
Fixed(name, resp) ==
    /\ intent' = name
    /\ response' = resp
    /\ slot' = None
    /\ value' = None
    /\ result' = NoResult
    /\ raised' = "none"
    /\ invoked' = <<>>
    /\ evaluated' = <<>>
    /\ repeated' = FALSE
    /\ overwrote' = FALSE
    /\ UNCHANGED <<attributes, scen, dlg, fills>>
    /\ UNCHANGED others

start_skill == Fixed("LaunchRequest", question("Hello. What station are you leaving from?"))

next_train_passes_station ==
    \E Station \in ValuesOf(StationPool), Line \in ValuesOf(LinePool) :
        /\ set_context_and_handle("NextTrainIntent", "Station", Station, TRUE)
        /\ UNCHANGED others

\* The Station and Line the platform hands over are not passed on.
next_train ==
    \E Station \in ValuesOf(StationPool), Line \in ValuesOf(LinePool) :
        /\ set_context_and_handle("NextTrainIntent", None, None, TRUE)
        /\ UNCHANGED others

set_station ==
    \E Station \in ValuesOf(StationPool) :
        /\ set_context_and_handle("SetStationIntent", "Station", Station, TRUE)
        /\ UNCHANGED others

set_line ==
    \E Line \in ValuesOf(LinePool) :
        /\ set_context_and_handle("SetLineIntent", "Line", Line, TRUE)
        /\ UNCHANGED others

set_direction ==
    \E Direction \in ValuesOf(DirectionPool) :
        /\ set_context_and_handle("SetDirectionIntent", "Direction", Direction, TRUE)
        /\ UNCHANGED others

yes_intent == Fixed("YesIntent", statement("OK, I'll text you."))

no_intent == Fixed("NoIntent", statement("OK."))

\* set_context_and_handle called directly, with a slot name no intent passes.
direct_call ==
    \E s \in SlotArgs, v \in ValuesOf(OtherPool) :
        /\ set_context_and_handle("set_context_and_handle", s, v, FALSE)
        /\ UNCHANGED others

Next ==
    \/ start_skill
    \/ next_train
    \/ set_station
    \/ set_line
    \/ set_direction
    \/ yes_intent
    \/ no_intent
    \/ direct_call

Spec == Init /\ [][Next]_vars

----------------------------------------------------------------------------
(* Several conversations.  flask_ask binds `session` to the conversation   *)
(* of the request being handled: the handler reads and writes that         *)
(* conversation's attributes, and each request is handled to completion    *)
(* before the next.  Conversation c supplies the c-th value of each pool,  *)
(* so that a value tells which conversation it came from.                  *)

\* session.attributes while a request of conversation c is handled
SessionOf(store, c) == store[c]

\* the attributes of conversation c after its request
StoreSession(store, c, attrs) == [store EXCEPT ![c] = attrs]

IsoValues(pool, c) == {None, pool[c]}

iso_request_global(c, name, s, v) ==
    LET attrs1 == WriteSlot(SessionOf(sessions, c), s, v)
        o      == Handle(attrs1)
    IN  /\ sessions' = [d \in Conversations |-> WriteSlot(sessions[d], s, v)]
        /\ current' = c
        /\ attributes' = attrs1
        /\ intent' = name
        /\ slot' = s
        /\ value' = v
        /\ result' = [mode |-> o.mode, text |-> o.text]
        /\ raised' = o.exc
        /\ invoked' = o.invoked
        /\ evaluated' = o.evaluated
        /\ response' = Render(o)
        /\ UNCHANGED <<scen, repeated, dlg, overwrote, fills, answers, answered, calls>>

\* One request of conversation c that calls set_context_and_handle(s, v).
iso_request(c, name, s, v) ==
    LET attrs1 == WriteSlot(SessionOf(sessions, c), s, v)
        o      == Handle(attrs1)
    IN  /\ sessions' = StoreSession(sessions, c, attrs1)
        /\ current' = c
        /\ attributes' = attrs1
        /\ intent' = name
        /\ slot' = s
        /\ value' = v
        /\ result' = [mode |-> o.mode, text |-> o.text]
        /\ raised' = o.exc
        /\ invoked' = o.invoked
        /\ evaluated' = o.evaluated
        /\ response' = Render(o)
        /\ UNCHANGED <<scen, repeated, dlg, overwrote, fills, answers, answered, calls>>

iso_next_train ==
    \E c \in Conversations :
        iso_request(c, "NextTrainIntent", None, None)

iso_set_station ==
    \E c \in Conversations : \E Station \in IsoValues(StationPool, c) :
        iso_request(c, "SetStationIntent", "Station", Station)

iso_set_line ==
    \E c \in Conversations : \E Line \in IsoValues(LinePool, c) :
        iso_request(c, "SetLineIntent", "Line", Line)

iso_set_direction ==
    \E c \in Conversations : \E Direction \in IsoValues(DirectionPool, c) :
        iso_request(c, "SetDirectionIntent", "Direction", Direction)

NextIso ==
    \/ iso_next_train
    \/ iso_set_station
    \/ iso_set_line
    \/ iso_set_direction

SpecIso == Init /\ [][NextIso]_vars

----------------------------------------------------------------------------
(* An answering user.  The conversation is at any session it can have      *)
(* reached; a first request with no slot makes the skill ask, and from     *)
(* then on every request supplies a value for exactly the slot that the    *)
(* last question asked for.                                                *)

\* Number of answering calls after which the user gives up.
MaxAnswers == 4

NonEmptyValuesOf(pool) == {v \in ValuesOf(pool) : Truthy(v)}

\* The values a stored slot can hold.
StoredValues(k) ==
    IF k = "Station" THEN NonEmptyValuesOf(StationPool)
    ELSE IF k = "Line" THEN NonEmptyValuesOf(LinePool)
    ELSE IF k = "Direction" THEN NonEmptyValuesOf(DirectionPool)
    ELSE NonEmptyValuesOf(OtherPool)

\* The sessions a conversation can have reached.
ReachedSessions ==
    UNION {{f \in [D -> UNION {StoredValues(k) : k \in D}] :
                \A k \in D : f[k] \in StoredValues(k)} :
           D \in SUBSET {"Station", "Line", "Direction", "Other"}}

\* The last call returned the prompt of slot k.
Prompted(k) ==
    /\ EngineCall
    /\ raised = "none"
    /\ invoked = <<>>
    /\ \E i \in 1..Len(schedule_slots) :
          /\ schedule_slots[i].slot_name = k
          /\ result = [mode |-> "question", text |-> schedule_slots[i].prompt]

InitAnswer == \E attrs \in ReachedSessions : Started(dialog, attrs)

\* The request that opens the exchange: NextTrainIntent.
ask ==
    /\ intent = "init"
    /\ set_context_and_handle("NextTrainIntent", None, None, TRUE)
    /\ UNCHANGED others

\* The request name supplies v for slot k, which the skill asked for.
Answer(name, k, v) ==
    /\ Prompted(k)
    /\ answers < MaxAnswers
    /\ set_context_and_handle(name, k, v, TRUE)
    /\ answers' = answers + 1
    /\ answered' = answered \cup {k}
    /\ UNCHANGED <<sessions, current, calls>>

answer_station ==
    \E Station \in NonEmptyValuesOf(StationPool) :
        Answer("SetStationIntent", "Station", Station)

answer_line ==
    \E Line \in NonEmptyValuesOf(LinePool) :
        Answer("SetLineIntent", "Line", Line)

answer_direction ==
    \E Direction \in NonEmptyValuesOf(DirectionPool) :
        Answer("SetDirectionIntent", "Direction", Direction)

NextAnswer ==
    \/ ask
    \/ answer_station
    \/ answer_line
    \/ answer_direction

\* The user does answer: a request that can be made is eventually made.
SpecAnswer == InitAnswer /\ [][NextAnswer]_vars /\ WF_vars(NextAnswer)

----------------------------------------------------------------------------
(* Overlapping calls.  Two callers call set_context_and_handle on the same *)
(* session without waiting for each other: the write of the incoming slot, *)
(* each membership test of the slot loop and each read of the session by  *)
(* the handler are separate steps, and the steps of the two calls          *)
(* interleave in any order.  A call keeps what its handler has read in     *)
(* `read` (the handler's local variables) until the handler returns.       *)
(* Caller i supplies the i-th value of each pool.                          *)

PoolOf(k) ==
    IF k = "Station" THEN StationPool
    ELSE IF k = "Line" THEN LinePool
    ELSE DirectionPool

RaceInputs(i) ==
    {<<None, None>>} \cup
    UNION {{<<schedule_slots[n].slot_name, v>> :
                v \in {None, PoolOf(schedule_slots[n].slot_name)[i]}} :
           n \in 1..Len(schedule_slots)}

\* What stays as it is while calls overlap: the requests are not recorded.
record == <<intent, slot, value, result, raised, invoked, evaluated, response,
            scen, repeated, dlg, overwrote, fills, sessions, current,
            answers, answered>>

\* Caller i enters set_context_and_handle(s, v).
race_begin ==
    \E i \in Callers : \E in \in RaceInputs(i) :
        /\ calls[i].pc = "idle"
        /\ calls' = [calls EXCEPT ![i] =
                        [IdleCall EXCEPT !.pc = "write", !.slot = in[1], !.value = in[2]]]
        /\ UNCHANGED <<attributes, record>>

\* if slot and value: session.attributes[slot] = value
race_write ==
    \E i \in Callers :
        /\ calls[i].pc = "write"
        /\ attributes' = WriteSlot(attributes, calls[i].slot, calls[i].value)
        /\ calls' = [calls EXCEPT ![i] =
                        [@ EXCEPT !.pc = "scan", !.k = 1,
                                  !.wrote = Truthy(calls[i].slot) /\ Truthy(calls[i].value)]]
        /\ UNCHANGED record

\* if s["slot_name"] not in session.attributes, for the k-th slot of the
\* first step
race_scan ==
    \E i \in Callers :
        LET slots == dlg[1].slots
            k     == calls[i].k
        IN  /\ calls[i].pc = "scan"
            /\ calls' = [calls EXCEPT ![i] =
                  IF slots[k].slot_name \notin DOMAIN attributes
                  THEN [@ EXCEPT !.pc = "done", !.mode = "question",
                                 !.text = slots[k].prompt]
                  ELSE IF k < Len(slots)
                  THEN [@ EXCEPT !.k = calls[i].k + 1]
                  ELSE [@ EXCEPT !.pc = "read", !.r = 1]]
            /\ UNCHANGED <<attributes, record>>

\* The slots get_next_train reads from the session, one statement each, in
\* the order of its statements.
ReadOrder == <<"Direction", "Line", "Station">>

\* One statement `x = session.attributes[key]` of the handler that
\* seq["intent"]() has called: the r-th read.  A key that is absent raises
\* KeyError out of the call.
race_read ==
    \E i \in Callers :
        LET key == ReadOrder[calls[i].r]
            got == calls[i].read
        IN  /\ calls[i].pc = "read"
            /\ calls' = [calls EXCEPT ![i] =
                  IF key \notin DOMAIN attributes
                  THEN [@ EXCEPT !.pc = "done", !.exc = "KeyError",
                                 !.invoked = <<dlg[1].intent>>,
                                 !.r = 0, !.read = EmptyAttributes]
                  ELSE [@ EXCEPT
                          !.invoked = <<dlg[1].intent>>,
                          !.read = [x \in DOMAIN got \cup {key} |->
                                      IF x = key THEN attributes[key] ELSE got[x]],
                          !.r  = IF calls[i].r < Len(ReadOrder)
                                 THEN calls[i].r + 1 ELSE 0,
                          !.pc = IF calls[i].r < Len(ReadOrder)
                                 THEN "read" ELSE "handle"]]
            /\ UNCHANGED <<attributes, record>>

\* The handler builds its message from the values it has read, and
\* final_msg = seq["intent"]() is followed by the return.
race_handle ==
    \E i \in Callers :
        LET o == RunIntent(1, calls[i].read)
        IN  /\ calls[i].pc = "handle"
            /\ calls' = [calls EXCEPT ![i] =
                  [@ EXCEPT !.pc = "done", !.mode = o.mode, !.text = o.text,
                            !.exc = o.exc, !.invoked = o.invoked,
                            !.read = EmptyAttributes]]
            /\ UNCHANGED <<attributes, record>>

\* The caller has its result and may call again.
race_return ==
    \E i \in Callers :
        /\ calls[i].pc = "done"
        /\ calls' = [calls EXCEPT ![i] = IdleCall]
        /\ UNCHANGED <<attributes, record>>

NextRace ==
    \/ race_begin
    \/ race_write
    \/ race_scan
    \/ race_read
    \/ race_handle
    \/ race_return

SpecRace == Init /\ [][NextRace]_vars

----------------------------------------------------------------------------
(* Properties.                                                             *)

\* The slot names step n requires (none when its slots are None).
RequiredSlots(n) ==
    IF dialog[n].slots_is_none THEN {}
    ELSE {dialog[n].slots[i].slot_name : i \in 1..Len(dialog[n].slots)}

StepOf(h) == CHOOSE n \in 1..Len(dialog) : dialog[n].intent = h

\* Positions of the first step's required slots that the session lacks.
Missing == {i \in 1..Len(schedule_slots) : schedule_slots[i].slot_name \notin DOMAIN attributes}

EarliestMissing == CHOOSE i \in Missing : \A j \in Missing : i <= j

PromptsOf(s) ==
    {schedule_slots[i].prompt : i \in {j \in 1..Len(schedule_slots) : schedule_slots[j].slot_name = s}}

Pair(mode, text) == [mode |-> mode, text |-> text]

\* C1: every handler invoked by a call finds all the slots its step
\* requires in the session (which the call has written before scanning and
\* does not change afterwards), and no handler fails on a missing slot.
C1_HandlerOnlyWithAllSlots ==
    /\ \A i \in 1..Len(invoked) :
          RequiredSlots(StepOf(invoked[i])) \subseteq DOMAIN attributes
    /\ raised # "KeyError"

C1_Witness ==
    /\ EngineCall
    /\ invoked = <<"get_next_train">>
    /\ {"Station", "Line", "Direction"} \subseteq DOMAIN attributes

\* C2: when the session, after the incoming write, lacks a required slot of
\* the first step, the call returns a question with the prompt of the
\* earliest-declared slot it lacks; on an empty session it is the prompt of
\* the first required slot.
C2_PromptsEarliestMissingSlot ==
    /\ (EngineCall /\ Missing # {}) =>
          /\ result = Pair("question", schedule_slots[EarliestMissing].prompt)
          /\ invoked = <<>>
    /\ (EngineCall /\ attributes = EmptyAttributes) =>
          result = Pair("question", "What station?")

C2_Witness ==
    /\ EngineCall
    /\ {"Station", "Direction"} \subseteq DOMAIN attributes
    /\ "Line" \notin DOMAIN attributes
    /\ result = Pair("question", "What line?")

\* C3: when a call leaves all required slots of the first step present, it
\* invokes the step's handler exactly once and returns the handler's text
\* followed by "..." and the transition message as a question if the step
\* has a non-empty transition message, and the handler's text as a statement
\* if it has none.
C3_CompleteStepRunsHandlerOnce ==
    (EngineCall /\ Missing = {}) =>
        /\ invoked = <<dialog[1].intent>>
        /\ result =
              IF Truthy(dialog[1].transition_msg)
              THEN Pair("question",
                        CallIntent(dialog[1].intent, attributes).ret
                            \o "..." \o dialog[1].transition_msg)
              ELSE Pair("statement", CallIntent(dialog[1].intent, attributes).ret)

\* The call that fills the last missing slot: the fourth call of the scenario.
C3_Witness ==
    /\ scen = 4
    /\ slot = "Direction"
    /\ invoked = <<"get_next_train">>
    /\ result.mode = "question"

\* C4: the fifth call of the end-to-end scenario, with no incoming slot,
\* returns Statement(sendText()).
C4_FifthCallIsStatement ==
    (scen = 5 /\ EngineCall) => result = Pair("statement", send_text(attributes).ret)

\* C5: the first four calls of the end-to-end scenario return the three
\* prompts in declared order and then the next-train message, computed from
\* the three stored values, followed by the transition message.
C5_ScenarioFirstFourCalls ==
    EngineCall =>
        /\ scen = 1 => result = Pair("question", "What station?")
        /\ scen = 2 => result = Pair("question", "What line?")
        /\ scen = 3 => result = Pair("question", "Inbound or outbound?")
        /\ scen = 4 =>
              /\ attributes = [k \in {"Station", "Line", "Direction"} |->
                                  IF k = "Station" THEN "Park St"
                                  ELSE IF k = "Line" THEN "Red" ELSE "Inbound"]
              /\ result = Pair("question",
                      "The next Inbound Red train from Park St leaves in 5 minutes."
                          \o "...Should I text you?")

C5_Witness == scen = 4 /\ EngineCall /\ intent = "SetDirectionIntent"

\* C6 as stated: a call with a non-empty slot name leaves the session
\* mapping that slot to the incoming value, whatever the value.
C6_WriteForEveryValue ==
    (EngineCall /\ Truthy(slot)) =>
        (slot \in DOMAIN attributes /\ attributes[slot] = value)

\* C6 as amended: a call with a non-empty slot name and a non-empty value
\* leaves the session mapping the slot to the value, and its scan already
\* sees the slot (it does not prompt for it); a call whose slot name or
\* value is empty or None writes nothing and leaves the session as it was.
C6_WriteIffSlotAndValue ==
    [][EngineCall' =>
          IF Truthy(slot') /\ Truthy(value')
          THEN /\ slot' \in DOMAIN attributes'
               /\ attributes'[slot'] = value'
               /\ \A k \in DOMAIN attributes \ {slot'} : attributes'[k] = attributes[k]
               /\ DOMAIN attributes' = DOMAIN attributes \cup {slot'}
               /\ result'.text \notin PromptsOf(slot')
          ELSE attributes' = attributes]_vars

\* A slot written ahead of the slot the scan asks for.
C6_Witness ==
    /\ EngineCall
    /\ slot = "Direction"
    /\ Truthy(value)
    /\ attributes = [k \in {"Direction"} |-> value]
    /\ result = Pair("question", "What station?")

\* C7: no request removes a slot from the session.
C7_SlotsNeverRemoved ==
    [][DOMAIN attributes \subseteq DOMAIN attributes']_vars

C7_Witness ==
    /\ intent = "NextTrainIntent"
    /\ {"Station", "Line", "Direction", "Other"} \subseteq DOMAIN attributes

\* C8: an engine call repeating the (slot, value) pair of the call before
\* it leaves the session as the first call left it and returns what the
\* first call returned.
C8_RepeatedCallIdempotent ==
    [][(EngineCall' /\ repeated') =>
          /\ attributes' = attributes
          /\ result' = result
          /\ raised' = raised
          /\ invoked' = invoked]_vars

C8_Witness ==
    /\ repeated
    /\ slot = "Line"
    /\ Truthy(value)
    /\ attributes["Line"] = value

\* C9: every call scans exactly the first step of the dialog and invokes at
\* most one handler, whether the step is complete or not.
C9_OneStepPerCall ==
    EngineCall => (evaluated = <<1>> /\ Len(invoked) <= 1)

C9_Witness ==
    /\ EngineCall
    /\ Missing = {}
    /\ evaluated = <<1>>
    /\ invoked = <<"get_next_train">>

\* C10: every call returns, raising nothing, a pair whose mode is
\* "question" or "statement" and whose text is a string.
C10_AlwaysQuestionOrStatement ==
    EngineCall =>
        /\ raised = "none"
        /\ result.mode \in {"question", "statement"}
        /\ result.text # None

C10_Witness ==
    /\ intent = "set_context_and_handle"
    /\ slot = "Other"
    /\ value = ""
    /\ invoked = <<"get_next_train">>
    /\ result.mode = "question"

DeclaredSlots == {schedule_slots[i].slot_name : i \in 1..Len(schedule_slots)}

\* What a call with no incoming slot returns on session attrs.
NoSlotResult(attrs) ==
    LET o == Handle(WriteSlot(attrs, None, None)) IN Pair(o.mode, o.text)

\* What a call with an undeclared slot name leaves alone: it raises
\* nothing, returns what a call with no incoming slot returns on the prior
\* session, and every declared slot keeps its presence and value.
UndeclaredLeavesResult ==
    /\ raised' = "none"
    /\ result' = NoSlotResult(attributes)
    /\ \A k \in DeclaredSlots :
          /\ (k \in DOMAIN attributes') = (k \in DOMAIN attributes)
          /\ k \in DOMAIN attributes => attributes'[k] = attributes[k]

\* C11 as stated: every call with a slot name that no step declares raises
\* nothing and stores the name with the incoming value, whatever the value
\* is, without changing the result or the declared slots.
C11_UndeclaredSlotStored ==
    [][(EngineCall' /\ Truthy(slot') /\ slot' \notin DeclaredSlots) =>
          /\ slot' \in DOMAIN attributes' /\ attributes'[slot'] = value'
          /\ UndeclaredLeavesResult]_vars

\* C11, amended: a call with a slot name that no step declares raises
\* nothing; it stores the name with the incoming value exactly when the
\* value is present and non-empty, and otherwise leaves the session as it
\* was; in both cases it returns what a call with no incoming slot returns
\* on the prior session, and every declared slot keeps its presence and
\* value.
C11_UndeclaredSlotAccepted ==
    [][(EngineCall' /\ Truthy(slot') /\ slot' \notin DeclaredSlots) =>
          /\ IF Truthy(value')
             THEN /\ slot' \in DOMAIN attributes'
                  /\ attributes'[slot'] = value'
             ELSE attributes' = attributes
          /\ UndeclaredLeavesResult]_vars

\* An undeclared name has been stored with its value, after the station;
\* the call asked for the line as a call with no slot would.
C11_Witness ==
    /\ intent = "set_context_and_handle"
    /\ slot = "Other"
    /\ value = "yes"
    /\ "Other" \in DOMAIN attributes
    /\ attributes["Other"] = "yes"
    /\ "Station" \in DOMAIN attributes
    /\ result = Pair("question", "What line?")

\* C12: a call that writes a slot leaves the session mapping it to the
\* value written last, a stored value stays until its slot is written
\* again, and the text of every handler run is made of the values the
\* session holds then.
C12_LastWriteWins ==
    [][EngineCall' =>
          /\ (Truthy(slot') /\ Truthy(value')) =>
                (slot' \in DOMAIN attributes' /\ attributes'[slot'] = value')
          /\ \A k \in DOMAIN attributes :
                (k # slot' \/ ~Truthy(value')) =>
                    (k \in DOMAIN attributes' /\ attributes'[k] = attributes[k])
          /\ invoked' # <<>> =>
                /\ DeclaredSlots \subseteq DOMAIN attributes'
                /\ result'.text =
                      "The next " \o attributes'["Direction"] \o " "
                         \o attributes'["Line"] \o " train from "
                         \o attributes'["Station"]
                         \o " leaves in 5 minutes....Should I text you?"]_vars

\* Line, written "Red" before, is written "Green" and the handler says Green.
C12_Witness ==
    /\ overwrote
    /\ slot = "Line"
    /\ value = "Green"
    /\ invoked = <<"get_next_train">>
    /\ attributes["Line"] = "Green"
    /\ result.text =
          "The next Inbound Green train from Park St leaves in 5 minutes....Should I text you?"

\* C13: on a new session, in whichever order Station, Line and Direction
\* are supplied once each with fixed values, every fill is stored, the
\* first two calls return questions without running the handler, and the
\* third runs it and returns the same question: its text for the three
\* values, "..." and the transition message.
C13_AnyFillOrder ==
    (EngineCall /\ fills # Unordered) =>
        /\ DOMAIN attributes = {fills[i] : i \in 1..Len(fills)}
        /\ \A k \in DOMAIN attributes : attributes[k] = FixedFill[k]
        /\ Len(fills) \in {1, 2} =>
              /\ invoked = <<>>
              /\ result.mode = "question"
              /\ \E i \in 1..Len(schedule_slots) :
                    /\ schedule_slots[i].slot_name \notin DOMAIN attributes
                    /\ result.text = schedule_slots[i].prompt
        /\ Len(fills) = 3 =>
              /\ attributes = FixedFill
              /\ invoked = <<"get_next_train">>
              /\ result = Pair("question",
                    "The next Inbound Red train from Park St leaves in 5 minutes....Should I text you?")

C13_Witness ==
    /\ EngineCall
    /\ fills = <<"Direction", "Line", "Station">>
    /\ invoked = <<"get_next_train">>

\* C15: every step of the dialog has a list of required slots, so that the
\* slot loop of a call is defined on every step.
C15_EveryStepHasSlotList ==
    \A n \in 1..Len(dlg) :
        /\ ~dlg[n].slots_is_none
        /\ StepBody(n, attributes).exc # "TypeError"

\* C17: a call whose slot name is None or empty leaves the session as it
\* was; the NextTrainIntent request makes such a call, with (None, None),
\* whatever Station and Line it receives.
C17_NoSlotNoChange ==
    [][/\ (EngineCall' /\ ~Truthy(slot')) => attributes' = attributes
       /\ intent' = "NextTrainIntent" =>
             (slot' = None /\ value' = None /\ attributes' = attributes)]_vars

C17_Witness ==
    /\ intent = "NextTrainIntent"
    /\ slot = None
    /\ "Line" \in DOMAIN attributes
    /\ "Station" \notin DOMAIN attributes
    /\ result = Pair("question", "What station?")

\* C18: once Station, Line and Direction are all present they stay
\* present, and every later call runs get_next_train and returns, as a
\* question, its text followed by "...Should I text you?"; no call returns
\* a statement and none invokes send_text.
C18_CompleteIsAbsorbing ==
    [][/\ Missing = {} =>
             /\ DeclaredSlots \subseteq DOMAIN attributes'
             /\ EngineCall' =>
                   /\ invoked' = <<"get_next_train">>
                   /\ result' = Pair("question",
                          get_next_train(attributes').ret \o "...Should I text you?")
       /\ result'.mode # "statement"
       /\ \A i \in 1..Len(invoked') : invoked'[i] # "send_text"]_vars

\* A call after the one that completed the step.
C18_Witness ==
    /\ repeated
    /\ Missing = {}
    /\ Truthy(slot)
    /\ invoked = <<"get_next_train">>
    /\ result.mode = "question"

\* C14: a request of conversation c changes the session of c alone, by the
\* write of its own slot, and what it returns is what the call returns on
\* c's prior session with c's input, whatever the other sessions hold.
C14_SessionIsolation ==
    [][EngineCall' =>
          /\ \A d \in Conversations \ {current'} : sessions'[d] = sessions[d]
          /\ sessions'[current'] =
                IF Truthy(slot') /\ Truthy(value')
                THEN [k \in DOMAIN sessions[current'] \cup {slot'} |->
                         IF k = slot' THEN value' ELSE sessions[current'][k]]
                ELSE sessions[current']
          /\ LET o == Handle(sessions'[current'])
             IN  result' = Pair(o.mode, o.text)
          /\ invoked' # <<>> =>
                result'.text =
                    "The next " \o DirectionPool[current'] \o " "
                       \o LinePool[current'] \o " train from "
                       \o StationPool[current']
                       \o " leaves in 5 minutes....Should I text you?"]_vars

\* Conversation 2 completes its step while conversation 1 is half way.
C14_Witness ==
    /\ current = 2
    /\ invoked = <<"get_next_train">>
    /\ result.text =
          "The next Outbound Green train from Alewife leaves in 5 minutes....Should I text you?"
    /\ DOMAIN sessions[1] = {"Station", "Direction"}
    /\ sessions[1]["Station"] = "Park St"

\* C19: when the user answers every question by supplying the slot asked
\* for, the handler is eventually invoked; at most three answering calls
\* are ever made, and no slot is asked for again once it has been answered.
C19_AnsweringReachesHandler ==
    /\ [](/\ answers <= Len(schedule_slots)
          /\ \A k \in answered : ~Prompted(k))
    /\ <>(invoked = <<"get_next_train">>)

C19_Witness ==
    /\ answers = 3
    /\ answered = {"Station", "Line", "Direction"}
    /\ intent = "SetDirectionIntent"
    /\ invoked = <<"get_next_train">>

\* C20: with the steps of two calls on one session interleaved, a handler
\* that runs finds every slot it requires, and a slot a call has written is
\* in the session from then on, so also when both calls have finished.
C20_OverlappingCallsSafe ==
    \A i \in Callers :
        /\ calls[i].invoked # <<>> =>
              /\ calls[i].exc # "KeyError"
              /\ DeclaredSlots \subseteq DOMAIN attributes
        /\ calls[i].wrote => calls[i].slot \in DOMAIN attributes

\* Both calls have finished.  The first ran the handler while the second
\* wrote the direction and the line: the handler read the direction before
\* those writes and the line after them, and both writes are in the session.
C20_Witness ==
    /\ calls[1].pc = "done" /\ calls[2].pc = "done"
    /\ calls[1].invoked = <<"get_next_train">>
    /\ calls[1].text = "The next Inbound Green train from Park St leaves in "
                       \o "5 minutes....Should I text you?"
    /\ calls[2].wrote /\ calls[2].slot = "Line"
    /\ attributes = [k \in {"Station", "Line", "Direction"} |->
                        IF k = "Station" THEN "Park St"
                        ELSE IF k = "Line" THEN "Green" ELSE "Outbound"]

====
